---- MODULE Spec2Model ----
(***************************************************************************)
(* Two parts of the appinsights-rs repository:                             *)
(*                                                                         *)
(*  1. bond::v2::Visitor (appinsights-contracts-codegen): the default      *)
(*     depth-first walk over a Bond schema.  Every trait method is one     *)
(*     action.  The Rust call stack is the variable agenda: the calls that *)
(*     are still to be made, innermost first.  A method body is a          *)
(*     straight-line sequence of calls on self, so executing a method      *)
(*     replaces the call on top of the agenda by the calls of its body.    *)
(*     Dynamic dispatch on self is the variable visitor: which methods a   *)
(*     concrete visitor overrides.                                         *)
(*                                                                         *)
(*  2. Envelope::from((TelemetryContext, AvailabilityTelemetry))           *)
(*     (appinsights): the mapping of an availability telemetry item to     *)
(*     its envelope.                                                       *)
(***************************************************************************)
EXTENDS Integers, Sequences, FiniteSets, TLC

VARIABLES schema, visitor, agenda, calls, recorded, context, telemetry, envelope

vars == <<schema, visitor, agenda, calls, recorded, context, telemetry, envelope>>

visitorVars == <<schema, visitor, agenda, calls, recorded>>

envelopeVars == <<context, telemetry, envelope>>

\* ------------------------------------------------------------------------
\* Bounds
\* ------------------------------------------------------------------------

\* A generated schema has at most MaxNodes nodes (declarations, base
\* references, fields, constants and attributes together).
MaxNodes == 6

\* ------------------------------------------------------------------------
\* Generic helpers
\* ------------------------------------------------------------------------

RECURSIVE Flatten(_)
Flatten(ss) == IF ss = <<>> THEN <<>> ELSE Head(ss) \o Flatten(Tail(ss))

IsPrefix(s, t) == Len(s) <= Len(t) /\ SubSeq(t, 1, Len(s)) = s

Range(s) == {s[i] : i \in 1..Len(s)}

\* Option<T>: None is the empty sequence, Some(x) is <<x>>.
None == <<>>

Some(x) == <<x>>

\* ------------------------------------------------------------------------
\* The schema model (bond::Schema, UserType, Struct, Enum, Field,
\* EnumConstant, Attribute, Type).  Leaves are opaque to the walk; each is
\* labelled with the index of the declaration that owns it and its position,
\* so that every leaf of a schema is distinguishable from every other.
\* ------------------------------------------------------------------------

\* The shape of a declaration: its variant and the sizes of its collections.
DeclNodes(d) == 1 + d.nb + d.nf + d.nc + d.na

DeclShapes(n) ==
    {d \in [kind : {"Struct", "Enum"}, nb : 0..1, nf : 0..n, nc : 0..n, na : 0..n] :
        /\ DeclNodes(d) = n
        /\ d.kind = "Struct" => d.nc = 0
        /\ d.kind = "Enum" => d.nb = 0 /\ d.nf = 0}

RECURSIVE ShapesOfSize(_)
ShapesOfSize(n) ==
    IF n = 0 THEN {<<>>}
    ELSE UNION {{<<d>> \o s : d \in DeclShapes(k), s \in ShapesOfSize(n - k)} : k \in 1..n}

\* struct Point { x; y }  enum Color { Red, Green, Blue }
PointColorShape ==
    << [kind |-> "Struct", nb |-> 0, nf |-> 2, nc |-> 0, na |-> 0],
       [kind |-> "Enum", nb |-> 0, nf |-> 0, nc |-> 3, na |-> 0] >>

Shapes == (UNION {ShapesOfSize(n) : n \in 0..MaxNodes}) \cup {PointColorShape}

Type(i) == <<"type", i>>

Field(i, j) == <<"field", i, j>>

EnumConstant(i, j) == <<"constant", i, j>>

Attribute(i, j) == <<"attribute", i, j>>

\* UserType::Struct(Struct) / UserType::Enum(Enum)
UserType(i, d) ==
    IF d.kind = "Struct"
    THEN [kind |-> "Struct", name |-> i,
          base |-> IF d.nb = 1 THEN Some(Type(i)) ELSE None,
          fields |-> [j \in 1..d.nf |-> Field(i, j)],
          attributes |-> [j \in 1..d.na |-> Attribute(i, j)]]
    ELSE [kind |-> "Enum", name |-> i,
          constants |-> [j \in 1..d.nc |-> EnumConstant(i, j)],
          attributes |-> [j \in 1..d.na |-> Attribute(i, j)]]

Schema(shape) == [declarations |-> [i \in 1..Len(shape) |-> UserType(i, shape[i])]]

Schemas == {Schema(shape) : shape \in Shapes}

\* ------------------------------------------------------------------------
\* Concrete visitors: which trait methods are overridden.
\*   Default         nothing
\*   FieldRecorder   visit_field records its argument
\*   StructAttrOnly  visit_struct_attribute records its argument
\*   StructSkip      visit_struct records the struct and calls nothing
\*   StructReinvoke  visit_struct records the struct and calls visit_base,
\*                   visit_fields and visit_struct_attributes itself
\* ------------------------------------------------------------------------

Visitors == {"Default", "FieldRecorder", "StructAttrOnly", "StructSkip", "StructReinvoke"}

Call(fn, arg) == [fn |-> fn, arg |-> arg]

\* ------------------------------------------------------------------------
\* Default method bodies: the calls a body makes, in program order.
\* ------------------------------------------------------------------------

default_visit_schema(s) == << Call("visit_declarations", s.declarations) >>

\* Mutant: the declarations are walked last to first.
reversed_visit_declarations(declarations) ==
    [i \in 1..Len(declarations) |->
        LET d == declarations[Len(declarations) + 1 - i]
        IN  IF d.kind = "Struct" THEN Call("visit_struct", d) ELSE Call("visit_enum", d)]

\* Mutant: after visit_struct returns the loop itself goes on into the
\* struct's base, fields and attributes.
continuing_visit_declarations(declarations) ==
    Flatten([i \in 1..Len(declarations) |->
        LET d == declarations[i]
        IN  IF d.kind = "Struct"
            THEN << Call("visit_struct", d) >>
                 \o (IF d.base # None THEN << Call("visit_base", d.base[1]) >> ELSE <<>>)
                 \o << Call("visit_fields", d.fields),
                       Call("visit_struct_attributes", d.attributes) >>
            ELSE << Call("visit_enum", d) >>])

default_visit_declarations(declarations) ==
    [i \in 1..Len(declarations) |->
        IF declarations[i].kind = "Struct"
        THEN Call("visit_struct", declarations[i])
        ELSE Call("visit_enum", declarations[i])]

\* Mutant: the base is visited after the fields.
base_after_fields_visit_struct(declaration) ==
    << Call("visit_fields", declaration.fields) >>
    \o (IF declaration.base # None
        THEN << Call("visit_base", declaration.base[1]) >>
        ELSE <<>>)
    \o << Call("visit_struct_attributes", declaration.attributes) >>

\* Mutant: the attributes are visited before the fields.
attributes_first_visit_struct(declaration) ==
    (IF declaration.base # None
     THEN << Call("visit_base", declaration.base[1]) >>
     ELSE <<>>)
    \o << Call("visit_struct_attributes", declaration.attributes),
          Call("visit_fields", declaration.fields) >>

default_visit_struct(declaration) ==
    (IF declaration.base # None
     THEN << Call("visit_base", declaration.base[1]) >>
     ELSE <<>>)
    \o << Call("visit_fields", declaration.fields),
          Call("visit_struct_attributes", declaration.attributes) >>

\* Mutant: the fields are walked last to first.
reversed_visit_fields(fields) ==
    [i \in 1..Len(fields) |-> Call("visit_field", fields[Len(fields) + 1 - i])]

default_visit_fields(fields) ==
    [i \in 1..Len(fields) |-> Call("visit_field", fields[i])]

default_visit_struct_attributes(attributes) ==
    [i \in 1..Len(attributes) |-> Call("visit_struct_attribute", attributes[i])]

\* Mutant: the attributes are visited before the constants.
attributes_first_visit_enum(declaration) ==
    << Call("visit_enum_attributes", declaration.attributes),
       Call("visit_enum_constants", declaration.constants) >>

default_visit_enum(declaration) ==
    << Call("visit_enum_constants", declaration.constants),
       Call("visit_enum_attributes", declaration.attributes) >>

default_visit_enum_constants(constants) ==
    [i \in 1..Len(constants) |-> Call("visit_enum_constant", constants[i])]

\* Mutant: enum attributes go through the struct attribute method.
shared_visit_attributes(attributes) ==
    [i \in 1..Len(attributes) |-> Call("visit_struct_attribute", attributes[i])]

default_visit_enum_attributes(attributes) ==
    [i \in 1..Len(attributes) |-> Call("visit_enum_attribute", attributes[i])]

\* The empty default bodies of the leaf methods: the visitor state after the
\* call, given the state before it.
default_visit_base(state, declaration) == state

\* Mutant: the default leaf body is not empty.
recording_visit_field(state, field) == Append(state, field)

default_visit_field(state, field) == state

default_visit_struct_attribute(state, attribute) == state

default_visit_enum_constant(state, constant) == state

default_visit_enum_attribute(state, attribute) == state

\* ------------------------------------------------------------------------
\* The walk
\* ------------------------------------------------------------------------

Idle == "idle"

Top == Head(agenda)

Enabled(fn) == agenda # <<>> /\ Top.fn = fn

\* The method on top of the agenda runs: it is logged, its body's calls are
\* put in its place, and the visitor state becomes st.
Run(body, st) ==
    /\ calls' = Append(calls, [hook |-> Top.fn, arg |-> Top.arg])
    /\ agenda' = body \o Tail(agenda)
    /\ recorded' = st
    /\ UNCHANGED <<schema, visitor, envelopeVars>>

InitVisitor ==
    /\ schema \in Schemas
    /\ visitor \in Visitors
    /\ agenda = << Call("visit_schema", schema) >>
    /\ calls = <<>>
    /\ recorded = <<>>
    /\ context = Idle
    /\ telemetry = Idle
    /\ envelope = None

visit_schema ==
    /\ Enabled("visit_schema")
    /\ Run(default_visit_schema(Top.arg), recorded)

visit_declarations ==
    /\ Enabled("visit_declarations")
    /\ Run(default_visit_declarations(Top.arg), recorded)

visit_struct ==
    /\ Enabled("visit_struct")
    /\ CASE visitor = "StructSkip" ->
              Run(<<>>, Append(recorded, <<"visit_struct", Top.arg.name>>))
         [] visitor = "StructReinvoke" ->
              Run(default_visit_struct(Top.arg),
                  Append(recorded, <<"visit_struct", Top.arg.name>>))
         [] OTHER ->
              Run(default_visit_struct(Top.arg), recorded)

visit_base ==
    /\ Enabled("visit_base")
    /\ Run(<<>>, default_visit_base(recorded, Top.arg))

visit_fields ==
    /\ Enabled("visit_fields")
    /\ Run(default_visit_fields(Top.arg), recorded)

visit_field ==
    /\ Enabled("visit_field")
    /\ IF visitor = "FieldRecorder"
       THEN Run(<<>>, Append(recorded, Top.arg))
       ELSE Run(<<>>, default_visit_field(recorded, Top.arg))

visit_struct_attributes ==
    /\ Enabled("visit_struct_attributes")
    /\ Run(default_visit_struct_attributes(Top.arg), recorded)

visit_struct_attribute ==
    /\ Enabled("visit_struct_attribute")
    /\ IF visitor = "StructAttrOnly"
       THEN Run(<<>>, Append(recorded, Top.arg))
       ELSE Run(<<>>, default_visit_struct_attribute(recorded, Top.arg))

visit_enum ==
    /\ Enabled("visit_enum")
    /\ Run(default_visit_enum(Top.arg), recorded)

visit_enum_constants ==
    /\ Enabled("visit_enum_constants")
    /\ Run(default_visit_enum_constants(Top.arg), recorded)

visit_enum_constant ==
    /\ Enabled("visit_enum_constant")
    /\ Run(<<>>, default_visit_enum_constant(recorded, Top.arg))

visit_enum_attributes ==
    /\ Enabled("visit_enum_attributes")
    /\ Run(default_visit_enum_attributes(Top.arg), recorded)

visit_enum_attribute ==
    /\ Enabled("visit_enum_attribute")
    /\ Run(<<>>, default_visit_enum_attribute(recorded, Top.arg))

Next ==
    \/ visit_schema
    \/ visit_declarations
    \/ visit_struct
    \/ visit_base
    \/ visit_fields
    \/ visit_field
    \/ visit_struct_attributes
    \/ visit_struct_attribute
    \/ visit_enum
    \/ visit_enum_constants
    \/ visit_enum_constant
    \/ visit_enum_attributes
    \/ visit_enum_attribute

Spec == InitVisitor /\ [][Next]_vars

\* visit_schema has returned.
Done == agenda = <<>>

\* ------------------------------------------------------------------------
\* Reading the log of calls
\* ------------------------------------------------------------------------

Decls == schema.declarations

CallsOf(log, h) == SelectSeq(log, LAMBDA c : c.hook = h)

Args(log) == [p \in 1..Len(log) |-> log[p].arg]

Hooks(log) == [p \in 1..Len(log) |-> log[p].hook]

IsDispatch(c) == c.hook \in {"visit_struct", "visit_enum"}

\* Positions in calls of the visit_struct / visit_enum invocations.
DispatchPos == SelectSeq([p \in 1..Len(calls) |-> p], LAMBDA p : IsDispatch(calls[p]))

NDispatch == Len(DispatchPos)

\* What is called after the k-th dispatch and before the next one.
Segment(k) ==
    SubSeq(calls, DispatchPos[k] + 1,
           IF k < NDispatch THEN DispatchPos[k + 1] - 1 ELSE Len(calls))

SegComplete(k) == k < NDispatch \/ Done

Dispatched(k) == calls[DispatchPos[k]].arg

StructSegs == {k \in 1..NDispatch : calls[DispatchPos[k]].hook = "visit_struct"}

EnumSegs == {k \in 1..NDispatch : calls[DispatchPos[k]].hook = "visit_enum"}

\* Visitors that leave every method that recurses at its default.
NoRecursionOverride == {"Default", "FieldRecorder", "StructAttrOnly"}

StructsOf(ds) == SelectSeq(ds, LAMBDA d : d.kind = "Struct")

EnumsOf(ds) == SelectSeq(ds, LAMBDA d : d.kind = "Enum")

AllFields == Flatten([i \in 1..Len(StructsOf(Decls)) |-> StructsOf(Decls)[i].fields])

AllStructAttributes ==
    Flatten([i \in 1..Len(StructsOf(Decls)) |-> StructsOf(Decls)[i].attributes])

AllEnumAttributes ==
    Flatten([i \in 1..Len(EnumsOf(Decls)) |-> EnumsOf(Decls)[i].attributes])

\* ------------------------------------------------------------------------
\* C1
\* ------------------------------------------------------------------------

FieldVisits == Args(CallsOf(calls, "visit_field"))

\* C1: when no method that recurses is overridden, the visit_field
\* invocations made so far are an initial part of the concatenation of the
\* structs' field sequences in declaration order, and once visit_schema has
\* returned they are exactly that concatenation; a visitor that records in
\* visit_field has recorded exactly these invocations.
C1_FieldOrder ==
    visitor \in NoRecursionOverride =>
        /\ IsPrefix(FieldVisits, AllFields)
        /\ Done => FieldVisits = AllFields
        /\ visitor = "FieldRecorder" => recorded = FieldVisits

C1_Witness ==
    /\ visitor = "FieldRecorder"
    /\ Done
    /\ Len(recorded) >= 3
    /\ Cardinality({recorded[p][2] : p \in 1..Len(recorded)}) >= 2
    /\ \E i \in 1..Len(Decls) : Decls[i].kind = "Enum"

\* ------------------------------------------------------------------------
\* C2
\* ------------------------------------------------------------------------

BasePos(seg) == {p \in 1..Len(seg) : seg[p].hook = "visit_base"}

FieldPos(seg) == {p \in 1..Len(seg) : seg[p].hook = "visit_field"}

\* C2: with the default visit_struct, a struct without a base type causes
\* no visit_base call; a struct with a base type causes at most one, on its
\* base, exactly one once the struct has been walked, and every visit_field
\* call of the struct comes after it.
C2_BaseOnceBeforeFields ==
    visitor \in NoRecursionOverride =>
        \A k \in StructSegs :
            LET d == Dispatched(k)
                seg == Segment(k)
            IN  IF d.base = None
                THEN BasePos(seg) = {}
                ELSE /\ Cardinality(BasePos(seg)) <= 1
                     /\ \A p \in BasePos(seg) : seg[p].arg = d.base[1]
                     /\ SegComplete(k) => Cardinality(BasePos(seg)) = 1
                     /\ \A q \in FieldPos(seg) : \E p \in BasePos(seg) : p < q

C2_Witness ==
    /\ visitor = "Default"
    /\ Done
    /\ \E k \in StructSegs :
          Dispatched(k).base # None /\ Len(Dispatched(k).fields) >= 2
    /\ \E k \in StructSegs :
          Dispatched(k).base = None /\ Len(Dispatched(k).fields) >= 1

\* ------------------------------------------------------------------------
\* C3
\* ------------------------------------------------------------------------

ExpectedDispatch ==
    [i \in 1..Len(Decls) |->
        [hook |-> IF Decls[i].kind = "Struct" THEN "visit_struct" ELSE "visit_enum",
         arg |-> Decls[i]]]

\* c is a call on a child of declaration d.
InSubtree(c, d) ==
    IF d.kind = "Struct"
    THEN \/ c.hook = "visit_base" /\ d.base = Some(c.arg)
         \/ c.hook = "visit_fields" /\ c.arg = d.fields
         \/ c.hook = "visit_field" /\ c.arg \in Range(d.fields)
         \/ c.hook = "visit_struct_attributes" /\ c.arg = d.attributes
         \/ c.hook = "visit_struct_attribute" /\ c.arg \in Range(d.attributes)
    ELSE \/ c.hook = "visit_enum_constants" /\ c.arg = d.constants
         \/ c.hook = "visit_enum_constant" /\ c.arg \in Range(d.constants)
         \/ c.hook = "visit_enum_attributes" /\ c.arg = d.attributes
         \/ c.hook = "visit_enum_attribute" /\ c.arg \in Range(d.attributes)

\* C3: the visit_struct / visit_enum invocations made so far are, in order,
\* the first declarations of the schema, each dispatched by its variant;
\* after visit_schema has returned every declaration has been dispatched
\* exactly once; and everything called between one dispatch and the next is
\* a call on a child of the declaration dispatched first.
C3_DispatchOrder ==
    /\ IsPrefix(SelectSeq(calls, IsDispatch), ExpectedDispatch)
    /\ Done => SelectSeq(calls, IsDispatch) = ExpectedDispatch
    /\ \A k \in 1..NDispatch :
          \A p \in 1..Len(Segment(k)) : InSubtree(Segment(k)[p], Dispatched(k))

C3_Witness ==
    /\ visitor = "Default"
    /\ Done
    /\ Hooks(SelectSeq(calls, IsDispatch)) = <<"visit_struct", "visit_enum", "visit_struct">>
    /\ \A k \in 1..NDispatch : Len(Segment(k)) >= 3

\* ------------------------------------------------------------------------
\* C4
\* ------------------------------------------------------------------------

StructAttrPos(seg) == {p \in 1..Len(seg) : seg[p].hook = "visit_struct_attribute"}

\* C4: with the default visit_struct, the visit_struct_attribute calls of a
\* struct are an initial part of its attribute sequence, all of it once the
\* struct has been walked, and before each of them every field of the struct
\* has been visited and so has its base, if it has one.
C4_StructAttributesLast ==
    visitor \in NoRecursionOverride =>
        \A k \in StructSegs :
            LET d == Dispatched(k)
                seg == Segment(k)
                attrs == Args(CallsOf(seg, "visit_struct_attribute"))
            IN  /\ IsPrefix(attrs, d.attributes)
                /\ SegComplete(k) => attrs = d.attributes
                /\ \A q \in StructAttrPos(seg) :
                      /\ Args(CallsOf(SubSeq(seg, 1, q - 1), "visit_field")) = d.fields
                      /\ FieldPos(seg) \subseteq 1..(q - 1)
                      /\ d.base # None => \E p \in BasePos(seg) : p < q

C4_Witness ==
    /\ visitor = "StructAttrOnly"
    /\ Done
    /\ \E k \in StructSegs :
          /\ Len(Dispatched(k).attributes) = 2
          /\ Len(Dispatched(k).fields) >= 1
          /\ Dispatched(k).base # None
          /\ recorded = Dispatched(k).attributes

\* ------------------------------------------------------------------------
\* C5
\* ------------------------------------------------------------------------

EnumAttrPos(seg) == {p \in 1..Len(seg) : seg[p].hook = "visit_enum_attribute"}

EnumConstantPos(seg) == {p \in 1..Len(seg) : seg[p].hook = "visit_enum_constant"}

NodeHooks ==
    {"visit_struct", "visit_base", "visit_field", "visit_struct_attribute",
     "visit_enum", "visit_enum_constant", "visit_enum_attribute"}

\* C5: with the default visit_enum, the visit_enum_constant calls of an enum
\* are an initial part of its constant sequence and its visit_enum_attribute
\* calls an initial part of its attribute sequence, all of each once the enum
\* has been walked; every constant is visited before the first attribute;
\* and struct Point[x, y] followed by enum Color[Red, Green, Blue] yields
\* struct, field, field, enum, constant, constant, constant.
C5_EnumConstantsThenAttributes ==
    /\ \A k \in EnumSegs :
          LET d == Dispatched(k)
              seg == Segment(k)
              consts == Args(CallsOf(seg, "visit_enum_constant"))
              attrs == Args(CallsOf(seg, "visit_enum_attribute"))
          IN  /\ IsPrefix(consts, d.constants)
              /\ IsPrefix(attrs, d.attributes)
              /\ SegComplete(k) => consts = d.constants /\ attrs = d.attributes
              /\ \A q \in EnumAttrPos(seg) :
                    /\ Args(CallsOf(SubSeq(seg, 1, q - 1), "visit_enum_constant")) = d.constants
                    /\ EnumConstantPos(seg) \subseteq 1..(q - 1)
    /\ (schema = Schema(PointColorShape) /\ visitor \in NoRecursionOverride /\ Done) =>
          Hooks(SelectSeq(calls, LAMBDA c : c.hook \in NodeHooks)) =
              <<"visit_struct", "visit_field", "visit_field", "visit_enum",
                "visit_enum_constant", "visit_enum_constant", "visit_enum_constant">>

C5_Witness ==
    /\ visitor = "Default"
    /\ Done
    /\ \E k \in EnumSegs :
          Len(Dispatched(k).constants) >= 2 /\ Len(Dispatched(k).attributes) >= 2

\* ------------------------------------------------------------------------
\* C6
\* ------------------------------------------------------------------------

\* The walk of the fully default visitor.  Sequential code keeps running
\* until it returns: the next call on the agenda is eventually made.
InitDefault == InitVisitor /\ visitor = "Default"

FairSpec == InitDefault /\ [][Next]_vars /\ WF_vars(Next)

\* C6: with the fully default visitor visit_schema returns, the visitor
\* state is never changed and the schema is never changed.
C6_DefaultTerminates ==
    /\ <>Done
    /\ [](recorded = <<>>)
    /\ [][schema' = schema /\ visitor' = visitor]_vars

C6_Witness ==
    /\ visitor = "Default"
    /\ Done
    /\ Len(calls) >= 6
    /\ \E i \in 1..Len(Decls) :
          Decls[i].kind = "Struct" /\ Decls[i].fields = <<>> /\ Decls[i].attributes = <<>>
    /\ \E i \in 1..Len(Decls) :
          Decls[i].kind = "Enum" /\ Decls[i].constants = <<>> /\ Decls[i].attributes = <<>>

\* ------------------------------------------------------------------------
\* C7, C8
\* ------------------------------------------------------------------------

Invocation(h, x) == [hook |-> h, arg |-> x]

Leaves(h, xs) == [i \in 1..Len(xs) |-> Invocation(h, xs[i])]

\* The calls made below a struct and below an enum when every method is the
\* default one, written out as a sequence.
StructChildren(d) ==
    (IF d.base # None THEN << Invocation("visit_base", d.base[1]) >> ELSE <<>>)
    \o << Invocation("visit_fields", d.fields) >>
    \o Leaves("visit_field", d.fields)
    \o << Invocation("visit_struct_attributes", d.attributes) >>
    \o Leaves("visit_struct_attribute", d.attributes)

EnumChildren(d) ==
    << Invocation("visit_enum_constants", d.constants) >>
    \o Leaves("visit_enum_constant", d.constants)
    \o << Invocation("visit_enum_attributes", d.attributes) >>
    \o Leaves("visit_enum_attribute", d.attributes)

FullTrace(s) ==
    << Invocation("visit_schema", s), Invocation("visit_declarations", s.declarations) >>
    \o Flatten([i \in 1..Len(s.declarations) |->
                  LET d == s.declarations[i]
                  IN  IF d.kind = "Struct"
                      THEN << Invocation("visit_struct", d) >> \o StructChildren(d)
                      ELSE << Invocation("visit_enum", d) >> \o EnumChildren(d)])

\* The fully default visitor makes exactly the calls of FullTrace.
DefaultWalk == (visitor = "Default" /\ Done) => calls = FullTrace(schema)

StructNames ==
    [i \in 1..Len(StructsOf(Decls)) |-> <<"visit_struct", StructsOf(Decls)[i].name>>]

StructChildHooks ==
    {"visit_base", "visit_fields", "visit_field",
     "visit_struct_attributes", "visit_struct_attribute"}

\* C7: a visit_struct override that calls none of the sub-dispatches is
\* still called once per struct in declaration order, no visit_base,
\* visit_field or visit_struct_attribute call is ever made, and every enum is
\* walked as by the defaults; a visit_struct override that calls the three
\* sub-dispatches makes the walk the one of the fully default visitor.
C7_OverrideReplacesBody ==
    /\ DefaultWalk
    /\ visitor = "StructSkip" =>
          /\ \A p \in 1..Len(calls) : calls[p].hook \notin StructChildHooks
          /\ IsPrefix(recorded, StructNames)
          /\ Len(recorded) = Len(CallsOf(calls, "visit_struct"))
          /\ Done => recorded = StructNames
          /\ \A k \in EnumSegs : SegComplete(k) => Segment(k) = EnumChildren(Dispatched(k))
          /\ \A k \in StructSegs : Segment(k) = <<>>
    /\ visitor = "StructReinvoke" =>
          /\ IsPrefix(calls, FullTrace(schema))
          /\ Done => calls = FullTrace(schema) /\ recorded = StructNames

C7_Witness ==
    /\ visitor = "StructSkip"
    /\ Done
    /\ \E i \in 1..Len(Decls) :
          /\ Decls[i].kind = "Struct"
          /\ Decls[i].base # None
          /\ Decls[i].fields # <<>>
          /\ Decls[i].attributes # <<>>
    /\ \E k \in EnumSegs : Len(Segment(k)) >= 3

\* C8: overriding only visit_struct_attribute leaves the walk the one of the
\* fully default visitor; the override is called once per attribute of a
\* struct, in order, and never on an attribute of an enum, which goes to
\* visit_enum_attribute only.
C8_StructAttributeOverrideOnly ==
    /\ DefaultWalk
    /\ visitor = "StructAttrOnly" =>
          /\ IsPrefix(calls, FullTrace(schema))
          /\ Done => calls = FullTrace(schema)
          /\ IsPrefix(recorded, AllStructAttributes)
          /\ Done => recorded = AllStructAttributes
          /\ \A p \in 1..Len(recorded) : Decls[recorded[p][2]].kind = "Struct"
          /\ recorded = Args(CallsOf(calls, "visit_struct_attribute"))
          /\ Done => Args(CallsOf(calls, "visit_enum_attribute")) = AllEnumAttributes

C8_Witness ==
    /\ visitor = "StructAttrOnly"
    /\ Done
    /\ Len(recorded) >= 2
    /\ AllEnumAttributes # <<>>

\* ------------------------------------------------------------------------
\* Envelope::from((TelemetryContext, AvailabilityTelemetry))
\* ------------------------------------------------------------------------

Keys == {"test", "no-write"}

Values == {"ok", "fail"}

\* Properties and ContextTags: maps from string to string.
Maps == UNION {[K -> Values] : K \in SUBSET Keys}

\* Properties::combine(a, b) and ContextTags::combine(a, b): the entries of
\* a, then those of b on top of them.
combine(a, b) ==
    [k \in (DOMAIN a) \cup (DOMAIN b) |-> IF k \in DOMAIN b THEN b[k] ELSE a[k]]

\* AvailabilityDataBuilder::new and Default: the optional members are unset.
AvailabilityDataBuilder_new(id, name, duration, success) ==
    [id |-> id, name |-> name, duration |-> duration, success |-> success,
     run_location |-> None, message |-> None,
     properties |-> None, measurements |-> None]

builder_properties(builder, properties) ==
    [builder EXCEPT !.properties = Some(properties)]

builder_measurements(builder, measurements) ==
    [builder EXCEPT !.measurements = Some(measurements)]

builder_run_location(builder, run_location) ==
    [builder EXCEPT !.run_location = Some(run_location)]

\* Uuid::to_hyphenated().to_string(), Duration::to_string(),
\* DateTime::to_rfc3339_opts(SecondsFormat::Millis, true)
to_hyphenated(id) == <<"hyphenated", id>>

duration_to_string(d) == <<"d.hh:mm:ss.fffffff", d>>

to_rfc3339_millis(t) == <<"rfc3339-millis-Z", t>>

envelope_name(normalized_i_key) ==
    <<"Microsoft.ApplicationInsights.", normalized_i_key, ".Availability">>

Contexts ==
    [i_key : {"instrumentation"}, normalized_i_key : {"instrumentation"},
     properties : Maps, tags : Maps]

\* AvailabilityTelemetry::new leaves id, run_location and message unset and
\* the maps empty; the item is then filled in through its mutable accessors.
Telemetries ==
    [id : {None, Some("uuid")},
     name : {"GET https://example.com/main.html"},
     duration : {"2s"},
     success : {TRUE},
     timestamp : {"2019-01-02T03:04:05.800"},
     run_location : {None, Some("loc")},
     message : {None, Some("msg")},
     properties : Maps,
     tags : Maps,
     measurements : {[k \in {"latency"} |-> "200.0"]}]

\* Mutant: the maps are combined the other way round.
EnvelopeFrom_context_wins(ctx, tel) ==
    LET id == IF tel.id # None THEN to_hyphenated(tel.id[1]) ELSE ""
        b0 == AvailabilityDataBuilder_new(id, tel.name, duration_to_string(tel.duration),
                                          tel.success)
        b1 == builder_measurements(
                  builder_properties(b0, combine(tel.properties, ctx.properties)),
                  tel.measurements)
        b2 == IF tel.run_location # None
              THEN builder_run_location(b1, tel.run_location[1])
              ELSE b1
        b3 == IF tel.message # None
              THEN builder_run_location(b2, tel.message[1])
              ELSE b2
    IN  [name |-> envelope_name(ctx.normalized_i_key),
         time |-> to_rfc3339_millis(tel.timestamp),
         data |-> b3,
         i_key |-> ctx.i_key,
         tags |-> combine(tel.tags, ctx.tags)]

EnvelopeFrom(ctx, tel) ==
    LET id == IF tel.id # None THEN to_hyphenated(tel.id[1]) ELSE ""
        b0 == AvailabilityDataBuilder_new(id, tel.name, duration_to_string(tel.duration),
                                          tel.success)
        b1 == builder_measurements(
                  builder_properties(b0, combine(ctx.properties, tel.properties)),
                  tel.measurements)
        b2 == IF tel.run_location # None
              THEN builder_run_location(b1, tel.run_location[1])
              ELSE b1
        b3 == IF tel.message # None
              THEN builder_run_location(b2, tel.message[1])
              ELSE b2
    IN  [name |-> envelope_name(ctx.normalized_i_key),
         time |-> to_rfc3339_millis(tel.timestamp),
         data |-> b3,
         i_key |-> ctx.i_key,
         tags |-> combine(ctx.tags, tel.tags)]

InitEnvelope ==
    /\ context \in Contexts
    /\ telemetry \in Telemetries
    /\ envelope = None
    /\ schema = Idle
    /\ visitor = Idle
    /\ agenda = <<>>
    /\ calls = <<>>
    /\ recorded = <<>>

From ==
    /\ envelope = None
    /\ envelope' = Some(EnvelopeFrom(context, telemetry))
    /\ UNCHANGED <<context, telemetry, visitorVars>>

NextEnvelope == From

SpecEnvelope == InitEnvelope /\ [][NextEnvelope]_vars

Built == envelope # None

BuiltEnvelope == envelope[1]

BuiltData == BuiltEnvelope.data

\* m is the union of the context's map c and the telemetry item's map t,
\* with the telemetry item's value wherever both have the key.
Merged(m, c, t) ==
    /\ DOMAIN m = (DOMAIN c) \cup (DOMAIN t)
    /\ \A k \in DOMAIN m : m[k] = IF k \in DOMAIN t THEN t[k] ELSE c[k]

\* C9: in the envelope built from a context and an availability telemetry
\* item, the data's properties are the context's properties overridden by
\* the item's, and the envelope's tags are the context's tags overridden by
\* the item's.
C9_TelemetryOverridesContext ==
    Built =>
        /\ BuiltData.properties # None
        /\ Merged(BuiltData.properties[1], context.properties, telemetry.properties)
        /\ Merged(BuiltEnvelope.tags, context.tags, telemetry.tags)

C9_Witness ==
    /\ Built
    /\ \E k \in DOMAIN context.properties \cap DOMAIN telemetry.properties :
          context.properties[k] # telemetry.properties[k]
    /\ \E k \in DOMAIN context.properties : k \notin DOMAIN telemetry.properties
    /\ \E k \in DOMAIN context.tags \cap DOMAIN telemetry.tags :
          context.tags[k] # telemetry.tags[k]
    /\ \E k \in DOMAIN telemetry.tags : k \notin DOMAIN context.tags
    /\ context.properties # context.tags
    /\ telemetry.properties # telemetry.tags

====
